---- MODULE Spec2Model ----
(***************************************************************************)
(* Model of the line formatter of Martchus/formatter.                      *)
(*                                                                         *)
(*   src/src/lib.rs   the formatter with rewrapping and substitutions      *)
(*   src/src/main.rs  the standalone formatter (no rewrap, no regex)       *)
(*                                                                         *)
(* A character is a one-element token ("a", " ", "*", ...); a String is a  *)
(* sequence of characters.  String::len() is a length in bytes, so every   *)
(* character carries its UTF-8 width (Utf8Len).                            *)
(***************************************************************************)
EXTENDS Integers, Sequences, FiniteSets, TLC

VARIABLES
    args,             \* Cli: the options of the run
    pc,               \* position of the driver: start, open, read, chars, done, panicked
    state,            \* LineState of the running handle_next_line call
    input_line,       \* the raw line handed to handle_next_line
    substituted_line, \* the line after the substitution loop
    rest,             \* characters of input_iter not yet processed
    output,           \* lines written to the output so far
    flushed,          \* the strings handed to write_line (or written raw) so far
    input,            \* raw lines read so far
    out_mark,         \* Len(output) when the loop over the current line started
    exit_code,        \* value returned by read_lines_from_input_or_files
    source,           \* how many of args.input_files the loop over them has taken up
    origin            \* for every line read, the input file it came from (0: stdin)

vars == <<args, pc, state, input_line, substituted_line, rest, output, flushed,
          input, out_mark, exit_code, source, origin>>

(***************************************************************************)
(* Bounds of the model.                                                    *)
(***************************************************************************)
MaxInputBytes == 5      \* bytes of input read in one run, line terminators included
MaxWidth == 3           \* largest max_line_length tried
MaxRules == 2           \* most --substitute-regex and most --replacement options

(***************************************************************************)
(* Characters.                                                             *)
(***************************************************************************)
\* "NBSP" is U+00A0 (white space, two bytes), "ESC" is U+001B (control).
Ascii == {"a", " ", "*"}

IsWhitespace(c) == c \in {" ", "\t", "NBSP"}

is_control(c) == c \in {"\t", "ESC"}

Utf8Len(c) == IF c = "NBSP" THEN 2 ELSE 1

RECURSIVE ByteLen(_)
ByteLen(s) == IF s = <<>> THEN 0 ELSE Utf8Len(Head(s)) + ByteLen(Tail(s))

RECURSIVE TrimEnd(_)
TrimEnd(s) ==
    IF s = <<>> THEN <<>>
    ELSE IF IsWhitespace(s[Len(s)]) THEN TrimEnd(SubSeq(s, 1, Len(s) - 1))
    ELSE s

RECURSIVE TrimStart(_)
TrimStart(s) ==
    IF s = <<>> THEN <<>>
    ELSE IF IsWhitespace(Head(s)) THEN TrimStart(Tail(s))
    ELSE s

\* The strings of at most n characters over the alphabet A.
RECURSIVE StringsUpTo(_, _)
StringsUpTo(A, n) ==
    IF n = 0 THEN {<<>>}
    ELSE LET S == StringsUpTo(A, n - 1)
         IN  S \cup {Append(s, c) : s \in {t \in S : Len(t) = n - 1}, c \in A}

(***************************************************************************)
(* lib.rs: writing a line.                                                 *)
(***************************************************************************)
\* Mutant: trailing whitespace is always trimmed.
write_line_trimmed(line, a) == TrimEnd(line)

write_line(line, a) ==
    IF a.keep_trailing_whitespaces THEN line ELSE TrimEnd(line)

is_list_start(c) == c = "*" \/ c = "-"

LineState(buf) ==
    [current_char         |-> "NUL",
     output_line          |-> buf,
     has_last_word_end    |-> FALSE,
     has_word             |-> FALSE,
     last_word_end        |-> 0,
     list_indentation     |-> <<>>,
     has_list_indentation |-> FALSE,
     list_padding_end     |-> TRUE,
     is_at_word_boundary  |-> FALSE]

(***************************************************************************)
(* lib.rs: overflow handling.                                              *)
(***************************************************************************)
\* The number of characters of s that make up its first k bytes, or -1 when
\* byte k is not a character boundary of s (String::drain panics then).
CharIndex(s, k) ==
    IF \E n \in 0..Len(s) : ByteLen(SubSeq(s, 1, n)) = k
    THEN CHOOSE n \in 0..Len(s) : ByteLen(SubSeq(s, 1, n)) = k
    ELSE -1

is_overflow(st, a) ==
    a.max_line_length # 0 /\ ByteLen(st.output_line) >= a.max_line_length

\* Mutant: the whole line is printed on every overflow.
flushes_whole_line_always(st, a) == TRUE

\* Mutant: the whole line is printed with break_words only.
flushes_whole_line_break_words_only(st, a) == a.break_words

\* The first branch of "deal with overflow": the whole line is printed.
flushes_whole_line(st, a) == a.break_words \/ st.is_at_word_boundary

\* The second branch: the line is printed until the last whitespace.
splits_at_last_word_end(st, a) ==
    ~flushes_whole_line(st, a) /\ st.has_last_word_end

\* What overflow handling writes to the output.
overflow_written(st, a) ==
    IF flushes_whole_line(st, a) THEN <<write_line(st.output_line, a)>>
    ELSE IF splits_at_last_word_end(st, a)
         THEN <<write_line(SubSeq(st.output_line, 1,
                                  CharIndex(st.output_line, st.last_word_end + 1)), a)>>
         ELSE <<>>

\* The part of output_line that overflow handling hands to write_line.
overflow_flushed(st, a) ==
    IF ~is_overflow(st, a) THEN <<>>
    ELSE IF flushes_whole_line(st, a) THEN <<st.output_line>>
    ELSE IF splits_at_last_word_end(st, a)
         THEN <<SubSeq(st.output_line, 1,
                       CharIndex(st.output_line, st.last_word_end + 1))>>
         ELSE <<>>

\* Mutant: the line is cleared after it was printed until the last whitespace.
overflow_kept_cleared(st, a) ==
    IF flushes_whole_line(st, a) \/ splits_at_last_word_end(st, a) THEN <<>>
    ELSE st.output_line

\* What overflow handling leaves in output_line before the list indentation
\* is repeated.
overflow_kept(st, a) ==
    IF flushes_whole_line(st, a) THEN <<>>
    ELSE IF splits_at_last_word_end(st, a)
         THEN SubSeq(st.output_line,
                     CharIndex(st.output_line, st.last_word_end + 1) + 1,
                     Len(st.output_line))
         ELSE st.output_line

\* "repeat list indentation on the next line if present"
repeat_list_indentation(st, kept) ==
    IF st.has_list_indentation THEN st.list_indentation \o kept ELSE kept

\* handle_overflow: the new LineState, the lines written, the returned flag
\* (skip: continue with the next character) and whether drain panicked.
handle_overflow(st, a) ==
    IF ~is_overflow(st, a)
    THEN [st |-> st, out |-> <<>>, skip |-> FALSE, panic |-> FALSE]
    ELSE IF splits_at_last_word_end(st, a)
            /\ CharIndex(st.output_line, st.last_word_end + 1) = -1
    THEN [st |-> st, out |-> <<>>, skip |-> FALSE, panic |-> TRUE]
    ELSE [st    |-> [st EXCEPT
                        !.output_line = repeat_list_indentation(st, overflow_kept(st, a)),
                        !.has_last_word_end = FALSE],
          out   |-> overflow_written(st, a),
          skip  |-> st.is_at_word_boundary,
          panic |-> FALSE]

(***************************************************************************)
(* lib.rs: lists and word boundaries.                                      *)
(***************************************************************************)
list_found(st, a) ==
    /\ a.preserve_list_indentation
    /\ ~st.has_word
    /\ ~st.has_list_indentation
    /\ is_list_start(st.current_char)

handle_list(st, a) ==
    IF list_found(st, a)
    THEN [st EXCEPT !.has_list_indentation = TRUE,
                    !.list_indentation = Append(st.output_line, " "),
                    !.list_padding_end = FALSE]
    ELSE st

handle_word_boundary(st) ==
    IF st.is_at_word_boundary
    THEN [st EXCEPT !.last_word_end = ByteLen(st.output_line),
                    !.has_last_word_end = TRUE]
    ELSE [st EXCEPT !.has_word = TRUE]

add_list_indentation(st, found) ==
    IF st.has_list_indentation /\ ~found /\ ~st.list_padding_end
    THEN IF st.is_at_word_boundary
         THEN [st EXCEPT !.list_indentation = Append(st.list_indentation, st.current_char)]
         ELSE [st EXCEPT !.list_padding_end = TRUE]
    ELSE st

(***************************************************************************)
(* lib.rs: paragraphs.                                                     *)
(***************************************************************************)
\* Mutant: a bullet does not start a paragraph.
is_new_paragraph_c_control_only(c) == is_control(c)

is_new_paragraph_c(c) == is_control(c) \/ is_list_start(c)

RECURSIVE is_new_paragraph(_)
is_new_paragraph(s) ==
    IF s = <<>> THEN TRUE
    ELSE IF ~IsWhitespace(Head(s)) THEN is_new_paragraph_c(Head(s))
    ELSE is_new_paragraph(Tail(s))

(***************************************************************************)
(* lib.rs: substitutions.  A pattern is a literal string; "(" stands for a *)
(* pattern that does not compile.                                          *)
(***************************************************************************)
\* Regex::new
regex_compiles(p) == p # <<"(">>

\* The start of the leftmost match of p in s, 0 when there is none.
find_match(s, p) ==
    LET starts == {i \in 1..(Len(s) - Len(p) + 1) : SubSeq(s, i, i + Len(p) - 1) = p}
    IN  IF starts = {} THEN 0
        ELSE CHOOSE i \in starts : \A j \in starts : i <= j

\* Regex::replace: replaces the leftmost match only.
regex_replace(s, p, r) ==
    LET i == find_match(s, p)
    IN  IF i = 0 THEN s
        ELSE SubSeq(s, 1, i - 1) \o r \o SubSeq(s, i + Len(p), Len(s))

\* Mutant: the loop pairs with zip, a pattern without a replacement is not
\* applied.
RECURSIVE apply_substitutions_zip(_, _, _, _)
apply_substitutions_zip(s, regexes, replacements, i) ==
    IF i > Len(regexes) \/ i > Len(replacements) THEN s
    ELSE apply_substitutions_zip(regex_replace(s, regexes[i], replacements[i]),
                                 regexes, replacements, i + 1)

\* The loop over substitute_regex.iter().zip_longest(&args.replacement),
\* from pair i on.
RECURSIVE apply_substitutions(_, _, _, _)
apply_substitutions(s, regexes, replacements, i) ==
    IF i > Len(regexes) /\ i > Len(replacements) THEN s
    ELSE IF i <= Len(regexes) /\ i <= Len(replacements)
         THEN apply_substitutions(regex_replace(s, regexes[i], replacements[i]),
                                  regexes, replacements, i + 1)
    ELSE IF i <= Len(regexes)
         THEN apply_substitutions(regex_replace(s, regexes[i], <<>>),
                                  regexes, replacements, i + 1)
    ELSE apply_substitutions(s, regexes, replacements, i + 1)

(***************************************************************************)
(* The configurations and the input of a run.                              *)
(***************************************************************************)
\* input_files is empty: the input is read from stdin.
Cli(n, bw, keep, list, rw, regexes, replacements) ==
    [max_line_length           |-> n,
     break_words               |-> bw,
     keep_trailing_whitespaces |-> keep,
     preserve_list_indentation |-> list,
     rewrap                    |-> rw,
     substitute_regex          |-> regexes,
     replacement               |-> replacements,
     input_files               |-> <<>>]

\* Every setting of the formatting options, without substitutions.
PlainArgs ==
    {Cli(n, bw, keep, list, rw, <<>>, <<>>) :
        n \in 0..MaxWidth, bw \in BOOLEAN, keep \in BOOLEAN,
        list \in BOOLEAN, rw \in BOOLEAN}

\* The bytes the lines of ls take in the input, line terminators included.
RECURSIVE InputBytes(_)
InputBytes(ls) ==
    IF ls = <<>> THEN 0 ELSE ByteLen(Head(ls)) + 1 + InputBytes(Tail(ls))

\* The lines over the alphabet A that fit into n bytes of input, for every n.
LinesOver(A) ==
    [n \in 0..MaxInputBytes |->
        {l \in StringsUpTo(A, MaxInputBytes - 1) : ByteLen(l) + 1 <= n}]

AsciiLines == LinesOver(Ascii)

\* The bytes of input that can still be read.
InputLeft == MaxInputBytes - InputBytes(input)

(***************************************************************************)
(* lib.rs: the run.                                                        *)
(***************************************************************************)
InitWith(argsSet) ==
    /\ args \in argsSet
    /\ pc = "start"
    /\ state = LineState(<<>>)
    /\ input_line = <<>>
    /\ substituted_line = <<>>
    /\ rest = <<>>
    /\ output = <<>>
    /\ flushed = <<>>
    /\ input = <<>>
    /\ out_mark = 0
    /\ exit_code = 0
    /\ source = 0
    /\ origin = <<>>

\* Mutant: only the first pattern is compiled.
parse_regex_fails_first_only(regexes) ==
    regexes # <<>> /\ ~regex_compiles(regexes[1])

\* The loop over args.substitute_regex reaches "return 1".
parse_regex_fails(regexes) ==
    \E i \in 1..Len(regexes) : ~regex_compiles(regexes[i])

\* read_lines_from_input_or_files, "parse regex for substitution"
ParseRegex ==
    /\ pc = "start"
    /\ IF ~parse_regex_fails(args.substitute_regex)
       THEN /\ pc' = IF args.input_files = <<>> THEN "read" ELSE "open"
            /\ exit_code' = 0
       ELSE /\ pc' = "done"
            /\ exit_code' = 1
    /\ UNCHANGED <<args, state, input_line, substituted_line, rest, output, flushed,
                   input, out_mark, source, origin>>

\* The paragraph test at the entry of handle_next_line.
flushes_previous_line(line, buf, a) ==
    a.rewrap /\ buf # <<>> /\ is_new_paragraph(line)

\* Mutant: lines are never joined.
joins_line_never(buf, a) == FALSE

\* "insert a whitespace on underflow when rewrapping and trim input"
joins_line(buf, a) == a.rewrap /\ buf # <<>>

\* read_lines hands the next line to handle_next_line, which runs up to the
\* loop over the characters.
HandleNextLine(line) ==
    /\ pc = "read"
    /\ LET buf   == state.output_line
           flush == flushes_previous_line(line, buf, args)
           buf1  == IF flush THEN <<>> ELSE buf
           sub   == apply_substitutions(line, args.substitute_regex, args.replacement, 1)
           join  == joins_line(buf1, args)
       IN  /\ output' = IF flush THEN Append(output, write_line(buf, args)) ELSE output
           /\ flushed' = IF flush THEN Append(flushed, buf) ELSE flushed
           /\ state' = LineState(IF join THEN Append(buf1, " ") ELSE buf1)
           /\ rest' = IF join THEN TrimStart(sub) ELSE sub
           /\ substituted_line' = sub
           /\ out_mark' = Len(output')
    /\ input_line' = line
    /\ input' = Append(input, line)
    /\ origin' = Append(origin, source)
    /\ pc' = "chars"
    /\ UNCHANGED <<args, exit_code, source>>

\* The body of the loop over the characters, after handle_overflow returned
\* false.
accept_char(st, a) ==
    LET found == list_found(st, a)
        st1   == handle_word_boundary(handle_list(st, a))
        st2   == [st1 EXCEPT !.output_line = Append(st1.output_line, st.current_char)]
    IN  add_list_indentation(st2, found)

\* The LineState at the top of the loop body, for the next character.
next_char_state ==
    [state EXCEPT !.current_char = Head(rest),
                  !.is_at_word_boundary = IsWhitespace(Head(rest))]

\* One iteration of the loop over the characters.
ProcessChar ==
    /\ pc = "chars"
    /\ rest # <<>>
    /\ LET st0 == next_char_state
           ov  == handle_overflow(st0, args)
       IN  IF ov.panic
           THEN /\ pc' = "panicked"
                /\ UNCHANGED <<state, rest, output, flushed>>
           ELSE /\ pc' = pc
                /\ output' = output \o ov.out
                /\ flushed' = flushed \o overflow_flushed(st0, args)
                /\ rest' = Tail(rest)
                /\ state' = IF ov.skip THEN ov.st ELSE accept_char(ov.st, args)
    /\ UNCHANGED <<args, input_line, substituted_line, input, out_mark, exit_code,
                   source, origin>>

\* Mutant: an empty output line is not flushed.
flushes_current_line_unless_empty(buf, a) == ~a.rewrap /\ buf # <<>>

\* The test of "flush current output line" at the end of handle_next_line.
flushes_current_line(buf, a) == ~a.rewrap

\* The end of handle_next_line: "flush current output line".
EndOfLine ==
    /\ pc = "chars"
    /\ rest = <<>>
    /\ IF flushes_current_line(state.output_line, args)
       THEN /\ output' = Append(output, write_line(state.output_line, args))
            /\ flushed' = Append(flushed, state.output_line)
            /\ state' = LineState(<<>>)
       ELSE /\ output' = output
            /\ flushed' = flushed
            /\ state' = LineState(state.output_line)
    /\ pc' = "read"
    /\ UNCHANGED <<args, input_line, substituted_line, rest, input, out_mark, exit_code,
                   source, origin>>

\* Mutant: the last output line is never printed.
prints_last_line_never(a) == FALSE

\* The test of "print the last output line".
prints_last_line(a) == a.rewrap

\* The end of stdin: "print the last output line".
EndOfInput ==
    /\ pc = "read"
    /\ args.input_files = <<>>
    /\ output' = IF prints_last_line(args)
                 THEN Append(output, write_line(state.output_line, args))
                 ELSE output
    /\ flushed' = IF prints_last_line(args)
                  THEN Append(flushed, state.output_line)
                  ELSE flushed
    /\ pc' = "done"
    /\ UNCHANGED <<args, state, input_line, substituted_line, rest, input, out_mark,
                   exit_code, source, origin>>

Init == InitWith(PlainArgs)

ReadLine ==
    /\ pc = "read"
    /\ \E line \in AsciiLines[InputLeft] : HandleNextLine(line)

Next == ParseRegex \/ ReadLine \/ ProcessChar \/ EndOfLine \/ EndOfInput

Spec == Init /\ [][Next]_vars

\* The runs with rewrap.  The run is a sequential program: it goes on until
\* it has returned.
RewrapArgs == {a \in PlainArgs : a.rewrap}

FairSpec == InitWith(RewrapArgs) /\ [][Next]_vars /\ WF_vars(Next)

(***************************************************************************)
(* lib.rs: runs with substitutions, without a width limit.                 *)
(***************************************************************************)
SubstAlphabet == {"a", "b"}

Patterns == {<<"a">>, <<"b">>, <<"(">>}

Replacements == {<<"b">>, <<"*">>}

\* The sequences of at most n elements of S.
RECURSIVE SeqsUpTo(_, _)
SeqsUpTo(S, n) ==
    IF n = 0 THEN {<<>>}
    ELSE LET T == SeqsUpTo(S, n - 1)
         IN  T \cup {Append(t, x) : t \in {u \in T : Len(u) = n - 1}, x \in S}

SubstArgs ==
    {Cli(0, FALSE, TRUE, FALSE, rw, regexes, replacements) :
        rw \in BOOLEAN,
        regexes \in SeqsUpTo(Patterns, MaxRules),
        replacements \in SeqsUpTo(Replacements, MaxRules)}

SubstLines == LinesOver(SubstAlphabet)

InitSubst == InitWith(SubstArgs)

ReadLineSubst ==
    /\ pc = "read"
    /\ \E line \in SubstLines[InputLeft] : HandleNextLine(line)

NextSubst == ParseRegex \/ ReadLineSubst \/ ProcessChar \/ EndOfLine \/ EndOfInput

SpecSubst == InitSubst /\ [][NextSubst]_vars

(***************************************************************************)
(* lib.rs: runs over lines with a whitespace character of two bytes.       *)
(***************************************************************************)
WideAlphabet == {"a", "NBSP"}

WideLines == LinesOver(WideAlphabet)

ReadLineWide ==
    /\ pc = "read"
    /\ \E line \in WideLines[InputLeft] : HandleNextLine(line)

NextWide == ParseRegex \/ ReadLineWide \/ ProcessChar \/ EndOfLine \/ EndOfInput

SpecWide == Init /\ [][NextWide]_vars

(***************************************************************************)
(* lib.rs: runs over input files.  An input file is given by what happens  *)
(* when it is used: "readable" (it opens and its lines are read to the     *)
(* end), "missing" (File::open fails) or "unreadable" (it opens, as a      *)
(* directory or a file that is not UTF-8 does, and some read returns Err). *)
(***************************************************************************)
MaxSources == 2         \* most input files of a run

SourceKinds == {"readable", "missing", "unreadable"}

\* The runs over input files: without and with a width limit, without and
\* with rewrap.
FilesArgs ==
    {[Cli(n, FALSE, TRUE, FALSE, rw, <<>>, <<>>) EXCEPT !.input_files = files] :
        n \in {0, MaxWidth}, rw \in BOOLEAN,
        files \in SeqsUpTo(SourceKinds, MaxSources) \ {<<>>}}

InitFiles == InitWith(FilesArgs)

\* The top of the loop over args.input_files: File::open; on Err the exit
\* code is set and the loop continues with the next file.
OpenFile ==
    /\ pc = "open"
    /\ source < Len(args.input_files)
    /\ source' = source + 1
    /\ IF args.input_files[source + 1] = "missing"
       THEN pc' = "open" /\ exit_code' = 1
       ELSE pc' = "read" /\ exit_code' = exit_code
    /\ UNCHANGED <<args, state, input_line, substituted_line, rest, output, flushed,
                   input, out_mark, origin>>

\* read_lines: input.lines() yields Err and line.unwrap() panics.
ReadError ==
    /\ pc = "read"
    /\ args.input_files # <<>>
    /\ args.input_files[source] = "unreadable"
    /\ pc' = "panicked"
    /\ UNCHANGED <<args, state, input_line, substituted_line, rest, output, flushed,
                   input, out_mark, exit_code, source, origin>>

\* Mutant: output_line is a new String for every input file.
output_line_of_next_file_new(buf) == <<>>

\* output_line is declared before the loop over the input files: the next
\* read_lines call gets it as the one before left it.
output_line_of_next_file(buf) == buf

\* read_lines returns at the end of an input file.
EndOfFile ==
    /\ pc = "read"
    /\ args.input_files # <<>>
    /\ args.input_files[source] = "readable"
    /\ pc' = "open"
    /\ state' = LineState(output_line_of_next_file(state.output_line))
    /\ UNCHANGED <<args, input_line, substituted_line, rest, output, flushed,
                   input, out_mark, exit_code, source, origin>>

\* The end of the loop over the input files: "print the last output line".
EndOfFiles ==
    /\ pc = "open"
    /\ source = Len(args.input_files)
    /\ output' = IF prints_last_line(args)
                 THEN Append(output, write_line(state.output_line, args))
                 ELSE output
    /\ flushed' = IF prints_last_line(args)
                  THEN Append(flushed, state.output_line)
                  ELSE flushed
    /\ pc' = "done"
    /\ UNCHANGED <<args, state, input_line, substituted_line, rest, input, out_mark,
                   exit_code, source, origin>>

NextFiles ==
    \/ ParseRegex \/ OpenFile \/ ReadLine \/ ReadError \/ ProcessChar \/ EndOfLine
    \/ EndOfFile \/ EndOfFiles

SpecFiles == InitFiles /\ [][NextFiles]_vars

(***************************************************************************)
(* lib.rs: the run over one stream of lines as a function of the lines.    *)
(***************************************************************************)
\* The loop over input_iter: the LineState after it and the lines written.
RECURSIVE handle_chars(_, _, _)
handle_chars(st, cs, a) ==
    IF cs = <<>> THEN [st |-> st, out |-> <<>>]
    ELSE LET st0 == [st EXCEPT !.current_char = Head(cs),
                               !.is_at_word_boundary = IsWhitespace(Head(cs))]
             ov  == handle_overflow(st0, a)
             nx  == handle_chars(IF ov.skip THEN ov.st ELSE accept_char(ov.st, a),
                                 Tail(cs), a)
         IN  [st |-> nx.st, out |-> ov.out \o nx.out]

\* handle_next_line: output_line after the call and the lines written.
handle_next_line(line, buf, a) ==
    LET flush == flushes_previous_line(line, buf, a)
        buf1  == IF flush THEN <<>> ELSE buf
        sub   == apply_substitutions(line, a.substitute_regex, a.replacement, 1)
        join  == joins_line(buf1, a)
        r     == handle_chars(LineState(IF join THEN Append(buf1, " ") ELSE buf1),
                              IF join THEN TrimStart(sub) ELSE sub, a)
        pre   == (IF flush THEN <<write_line(buf, a)>> ELSE <<>>) \o r.out
    IN  IF flushes_current_line(r.st.output_line, a)
        THEN [buf |-> <<>>, out |-> Append(pre, write_line(r.st.output_line, a))]
        ELSE [buf |-> r.st.output_line, out |-> pre]

\* read_lines over the lines ls: output_line after it and the lines written.
RECURSIVE read_lines(_, _, _)
read_lines(ls, buf, a) ==
    IF ls = <<>> THEN [buf |-> buf, out |-> <<>>]
    ELSE LET h == handle_next_line(Head(ls), buf, a)
             t == read_lines(Tail(ls), h.buf, a)
         IN  [buf |-> t.buf, out |-> h.out \o t.out]

\* read_lines_from_input_or_files over stdin holding the lines ls: the
\* lines written.
read_lines_from_input(ls, a) ==
    LET r == read_lines(ls, <<>>, a)
    IN  IF prints_last_line(a) THEN Append(r.out, write_line(r.buf, a)) ELSE r.out

(***************************************************************************)
(* main.rs: the standalone formatter.  handle_next_line keeps all its      *)
(* state in local variables, modelled as the record loc; written holds the *)
(* lines it wrote and handed the strings handed to the writer.             *)
(***************************************************************************)
MainCli(n, bw, keep, list) ==
    [max_line_length           |-> n,
     break_words               |-> bw,
     keep_trailing_whitespaces |-> keep,
     preserve_list_indentation |-> list]

MainArgs ==
    {MainCli(n, bw, keep, list) :
        n \in 0..MaxWidth, bw \in BOOLEAN, keep \in BOOLEAN, list \in BOOLEAN}

main_write_line(line, a) ==
    IF a.keep_trailing_whitespaces THEN line ELSE TrimEnd(line)

main_is_list_start(c) == c = "*" \/ c = "-"

\* The local variables at the entry of handle_next_line.
main_locals ==
    [output_line          |-> <<>>,
     has_last_word_end    |-> FALSE,
     has_word             |-> FALSE,
     last_word_end        |-> 0,
     list_indentation     |-> <<>>,
     has_list_indentation |-> FALSE,
     list_padding_end     |-> TRUE,
     written              |-> <<>>,
     handed               |-> <<>>,
     panicked             |-> FALSE]

\* "handle the case when the current line is full"
main_overflow(loc, c, a) ==
    LET ws    == IsWhitespace(c)
        whole == a.break_words \/ ws
        split == ~whole /\ loc.has_last_word_end
        n     == CharIndex(loc.output_line, loc.last_word_end + 1)
        head  == IF whole THEN <<loc.output_line>>
                 ELSE IF split THEN <<SubSeq(loc.output_line, 1, n)>>
                 ELSE <<>>
        kept  == IF whole THEN <<>>
                 ELSE IF split THEN SubSeq(loc.output_line, n + 1, Len(loc.output_line))
                 ELSE loc.output_line
    IN  IF split /\ n = -1
        THEN [loc EXCEPT !.panicked = TRUE]
        ELSE [loc EXCEPT
                 !.written = loc.written
                                \o [i \in 1..Len(head) |-> main_write_line(head[i], a)],
                 !.handed = loc.handed \o head,
                 !.has_last_word_end = FALSE,
                 !.output_line = IF loc.has_list_indentation
                                 THEN loc.list_indentation \o kept
                                 ELSE kept]

\* The loop body after the overflow block: lists, word boundaries, push.
main_accept(loc, c, a) ==
    LET ws         == IsWhitespace(c)
        found_list == /\ a.preserve_list_indentation
                      /\ ~loc.has_word
                      /\ ~loc.has_list_indentation
                      /\ main_is_list_start(c)
        l1 == IF found_list
              THEN [loc EXCEPT !.has_list_indentation = TRUE,
                               !.list_indentation = Append(loc.output_line, " "),
                               !.list_padding_end = FALSE]
              ELSE loc
        l2 == IF ws
              THEN [l1 EXCEPT !.last_word_end = ByteLen(l1.output_line),
                              !.has_last_word_end = TRUE]
              ELSE [l1 EXCEPT !.has_word = TRUE]
        l3 == [l2 EXCEPT !.output_line = Append(l2.output_line, c)]
    IN  IF l3.has_list_indentation /\ ~found_list /\ ~l3.list_padding_end
        THEN IF ws
             THEN [l3 EXCEPT !.list_indentation = Append(l3.list_indentation, c)]
             ELSE [l3 EXCEPT !.list_padding_end = TRUE]
        ELSE l3

\* The loop over line.chars().
RECURSIVE main_chars(_, _, _)
main_chars(loc, line, a) ==
    IF line = <<>> \/ loc.panicked THEN loc
    ELSE LET c    == Head(line)
             full == a.max_line_length # 0
                     /\ ByteLen(loc.output_line) >= a.max_line_length
             l1   == IF full THEN main_overflow(loc, c, a) ELSE loc
         IN  IF l1.panicked THEN l1
             ELSE IF full /\ IsWhitespace(c) THEN main_chars(l1, Tail(line), a)
             ELSE main_chars(main_accept(l1, c, a), Tail(line), a)

\* handle_next_line of main.rs; "print what's left in the current output
\* line" writes output_line as it is.
main_handle_next_line(line, a) ==
    LET loc == main_chars(main_locals, line, a)
    IN  IF loc.panicked THEN loc
        ELSE [loc EXCEPT !.written = Append(loc.written, loc.output_line),
                         !.handed = Append(loc.handed, loc.output_line)]

InitMain ==
    /\ args \in MainArgs
    /\ pc = "read"
    /\ state = LineState(<<>>)
    /\ input_line = <<>>
    /\ substituted_line = <<>>
    /\ rest = <<>>
    /\ output = <<>>
    /\ flushed = <<>>
    /\ input = <<>>
    /\ out_mark = 0
    /\ exit_code = 0
    /\ source = 0
    /\ origin = <<>>

\* read_lines of main.rs: one line of the input is handled.
MainReadLine ==
    /\ pc = "read"
    /\ \E line \in AsciiLines[InputLeft] :
          LET loc == main_handle_next_line(line, args)
          IN  /\ output' = output \o loc.written
              /\ flushed' = flushed \o loc.handed
              /\ input' = Append(input, line)
              /\ input_line' = line
              /\ out_mark' = Len(output)
              /\ origin' = Append(origin, source)
              /\ pc' = IF loc.panicked THEN "panicked" ELSE "read"
    /\ UNCHANGED <<args, state, substituted_line, rest, exit_code, source>>

\* The end of the input: main returns.
MainEndOfInput ==
    /\ pc = "read"
    /\ pc' = "done"
    /\ UNCHANGED <<args, state, input_line, substituted_line, rest, output, flushed,
                   input, out_mark, exit_code, source, origin>>

NextMain == MainReadLine \/ MainEndOfInput

SpecMain == InitMain /\ [][NextMain]_vars

(***************************************************************************)
(* Claims.                                                                 *)
(***************************************************************************)
\* C1 (width bound): with break_words and max_line_length = N > 0, every
\* line written to the output has at most N characters, whatever the other
\* options are.
WidthBound ==
    (args.break_words /\ args.max_line_length > 0)
        => \A i \in 1..Len(output) : Len(output[i]) <= args.max_line_length

\* The maximal runs of non-whitespace characters of s, in order; cur is the
\* run being read.
RECURSIVE WordsFrom(_, _)
WordsFrom(s, cur) ==
    IF s = <<>> THEN (IF cur = <<>> THEN <<>> ELSE <<cur>>)
    ELSE IF IsWhitespace(Head(s))
         THEN (IF cur = <<>> THEN <<>> ELSE <<cur>>) \o WordsFrom(Tail(s), <<>>)
         ELSE WordsFrom(Tail(s), Append(cur, Head(s)))

Words(s) == WordsFrom(s, <<>>)

\* The words of a sequence of lines; a line end ends a word.
RECURSIVE WordsOfLines(_)
WordsOfLines(ls) ==
    IF ls = <<>> THEN <<>> ELSE Words(Head(ls)) \o WordsOfLines(Tail(ls))

IsPrefix(s, t) == Len(s) <= Len(t) /\ SubSeq(t, 1, Len(s)) = s

\* C2 (word preservation): with break_words = false, the words of the lines
\* written so far are always the first words of the input lines read so far,
\* and once the run is over they are all the words of the input, in the same
\* order: no line boundary is put inside an input word, and no two input
\* words are fused.
WordPreservation ==
    ~args.break_words
        => /\ IsPrefix(WordsOfLines(output), WordsOfLines(input))
           /\ pc = "done" => WordsOfLines(output) = WordsOfLines(input)

\* C2 witness: a finished run without break_words in which a line of two
\* words was wrapped between them.
WordPreservationWitness ==
    /\ ~args.break_words
    /\ pc = "done"
    /\ args.max_line_length > 0
    /\ \E i \in 1..Len(input) : Len(Words(input[i])) >= 2
    /\ Len(output) > Len(input)

\* The current character as it is pushed when overflow handling does not
\* skip it.
PushedChar == IF IsWhitespace(Head(rest)) THEN <<>> ELSE <<Head(rest)>>

\* C3 (list indentation on wrap): when overflow is resolved while a list
\* prefix is captured, either a line is written and the new line is exactly
\* the list prefix followed by the retained text, or nothing is written and
\* the line just goes on: its indentation does not grow.
ListIndentationOnWrap ==
    [][(/\ pc = "chars" /\ pc' = "chars"
        /\ rest # <<>>
        /\ is_overflow(next_char_state, args)
        /\ next_char_state.has_list_indentation)
       => IF output' # output
          THEN state'.output_line =
                   state.list_indentation
                       \o overflow_kept(next_char_state, args) \o PushedChar
          ELSE state'.output_line = state.output_line \o PushedChar]_vars

\* The non-whitespace characters of s, in order.
NonWs(s) == SelectSeq(s, LAMBDA c : ~IsWhitespace(c))

\* The characters of the lines ls, in order.
RECURSIVE Flatten(_)
Flatten(ls) == IF ls = <<>> THEN <<>> ELSE Head(ls) \o Flatten(Tail(ls))

\* The lines written since the loop over the current line started.
WrittenForLine == SubSeq(output, out_mark + 1, Len(output))

\* A line that starts a paragraph: blank, or its first non-whitespace
\* character is a bullet or a control character.
StartsParagraph(l) ==
    \/ TrimStart(l) = <<>>
    \/ Head(TrimStart(l)) \in {"*", "-"}
    \/ is_control(Head(TrimStart(l)))

\* C4 (rewrap paragraph boundary): with rewrap, when a line that starts a
\* paragraph is read while the buffer is not empty, the buffer is written
\* as a line before any character of the line is processed; and while such
\* a line is processed, the lines written since and the buffer hold the text
\* of that line only.
RewrapParagraphBoundary ==
    [][/\ (/\ pc = "read" /\ pc' = "chars"
           /\ args.rewrap
           /\ state.output_line # <<>>
           /\ StartsParagraph(input_line'))
          => /\ output' = Append(output, write_line(state.output_line, args))
             /\ state'.output_line = <<>>
             /\ rest' = substituted_line'
       /\ (args.rewrap /\ pc' = "chars" /\ StartsParagraph(input_line'))
          => NonWs(Flatten(WrittenForLine'))
                 \o NonWs(state'.output_line) \o NonWs(rest')
             = NonWs(substituted_line')]_vars

\* C4 witness: with rewrap, a bullet line is being processed after the text
\* of the line before it was written as a line of its own.
RewrapParagraphBoundaryWitness ==
    /\ args.rewrap
    /\ pc = "chars"
    /\ Len(input) = 2
    /\ Words(input[1]) # <<>>
    /\ StartsParagraph(input_line)
    /\ NonWs(input_line) # <<>>
    /\ rest = <<>>
    /\ out_mark = 1
    /\ Words(output[1]) = Words(input[1])

\* The lines of ls from its last line that starts a paragraph on (all of ls
\* when there is none).
RECURSIVE ParagraphTail(_)
ParagraphTail(ls) ==
    IF Len(ls) <= 1 THEN ls
    ELSE IF StartsParagraph(ls[Len(ls)]) THEN <<ls[Len(ls)]>>
    ELSE Append(ParagraphTail(SubSeq(ls, 1, Len(ls) - 1)), ls[Len(ls)])

\* C5 (rewrap joining): with rewrap, a line that does not start a paragraph
\* and is read while the buffer is not empty is joined: one space is
\* appended to the buffer, nothing is written and the line is processed
\* without its leading whitespace.  With max_line_length = 0 nothing is
\* written while such a line is processed, and after it the buffer holds the
\* words of all the lines read since the last paragraph start.
RewrapJoining ==
    [][/\ (/\ pc = "read" /\ pc' = "chars"
           /\ args.rewrap
           /\ state.output_line # <<>>
           /\ ~StartsParagraph(input_line'))
          => /\ state'.output_line = Append(state.output_line, " ")
             /\ rest' = TrimStart(substituted_line')
             /\ output' = output
       /\ (/\ args.rewrap /\ args.max_line_length = 0
           /\ pc' \in {"chars", "read"}
           /\ input' # <<>>
           /\ ~StartsParagraph(input_line'))
          => /\ output' = output
             /\ pc' = "read"
                => Words(state'.output_line) = WordsOfLines(ParagraphTail(input'))]_vars

\* C5 witness: with rewrap and no width limit, a second line with leading
\* whitespace was joined to the first one with a single space.
RewrapJoiningWitness ==
    /\ args.rewrap /\ args.max_line_length = 0
    /\ pc = "read"
    /\ Len(input) = 2
    /\ NonWs(input[1]) # <<>>
    /\ ~StartsParagraph(input[2])
    /\ Head(input[2]) = " "
    /\ state.output_line = input[1] \o <<" ">> \o TrimStart(input[2])
    /\ output = <<>>

\* C6 (trailing-whitespace contract): every written line is the string
\* handed to the writer, as it is with keep_trailing_whitespaces and without
\* its trailing whitespace otherwise; in particular no written line ends
\* with whitespace when keep_trailing_whitespaces is off.
TrailingWhitespaceContract ==
    /\ Len(output) = Len(flushed)
    /\ \A i \in 1..Len(output) :
          IF args.keep_trailing_whitespaces
          THEN output[i] = flushed[i]
          ELSE /\ output[i] = <<>> \/ ~IsWhitespace(output[i][Len(output[i])])
               /\ IsPrefix(output[i], flushed[i])
               /\ NonWs(output[i]) = NonWs(flushed[i])

\* The configuration that changes nothing.
NoOpConfig ==
    /\ args.max_line_length = 0
    /\ ~args.rewrap
    /\ args.keep_trailing_whitespaces
    /\ args.substitute_regex = <<>>

\* C7 (no-op configuration): with max_line_length = 0, rewrap = false,
\* keep_trailing_whitespaces = true and no substitutions, the lines written
\* are the lines read, line for line, whatever break_words and
\* preserve_list_indentation are.
NoOpIdentity ==
    NoOpConfig
        => /\ pc \in {"read", "done"} => output = input
           /\ pc = "chars" => Append(output, state.output_line \o rest) = input

\* C7 witness: a finished run of the no-op configuration with break_words
\* and preserve_list_indentation on, over a bullet line with trailing
\* whitespace and a second line.
NoOpIdentityWitness ==
    /\ NoOpConfig
    /\ args.break_words /\ args.preserve_list_indentation
    /\ pc = "done"
    /\ Len(input) = 2
    /\ Len(input[1]) >= 3
    /\ Head(input[1]) = "*"
    /\ input[1][Len(input[1])] = " "
    /\ output = input

\* C8 (non-rewrap line independence): with rewrap = false, the end of an
\* input line writes the buffer and empties it, so the buffer is empty
\* whenever a line is read; every input line, also an empty one, has
\* produced at least one output line, and the lines written for it hold the
\* text of that line only.
NonRewrapLineIndependence ==
    [][~args.rewrap
       => /\ (pc = "chars" /\ pc' = "read")
             => /\ output' = Append(output, write_line(state.output_line, args))
                /\ state'.output_line = <<>>
          /\ pc' = "read"
             => /\ state'.output_line = <<>>
                /\ Len(output') >= Len(input')
                /\ input' # <<>>
                   => /\ Len(output') > out_mark'
                      /\ NonWs(Flatten(WrittenForLine')) = NonWs(substituted_line')]_vars

\* C8 witness: without rewrap, an empty line and a line that was wrapped
\* have been handled.
NonRewrapLineIndependenceWitness ==
    /\ ~args.rewrap
    /\ pc = "read"
    /\ Len(input) = 2
    /\ input[1] = <<>>
    /\ output[1] = <<>>
    /\ Len(output) >= 3
    /\ state.output_line = <<>>

\* C9 (rewrap final flush): with rewrap, the end of an input line writes
\* nothing and leaves the buffer as it is; the end of the input writes the
\* buffer as one more line; after that nothing is written; and every run
\* comes to that end, where the non-whitespace characters of the lines
\* written are those of the lines read.
RewrapFinalFlush ==
    /\ [][args.rewrap
          => /\ (pc = "chars" /\ pc' = "read")
                => output' = output /\ state'.output_line = state.output_line
             /\ (pc = "read" /\ pc' = "done")
                => output' = Append(output, write_line(state.output_line, args))
             /\ pc = "done" => output' = output]_vars
    /\ args.rewrap
          ~> (pc = "done" /\ NonWs(Flatten(output)) = NonWs(Flatten(input)))

\* C9 witness: a finished rewrap run whose two input lines were written by
\* the final flush alone, as one line.
RewrapFinalFlushWitness ==
    /\ args.rewrap
    /\ pc = "done"
    /\ Len(input) = 2
    /\ Len(output) = 1
    /\ Len(Words(output[1])) = 2
    /\ Words(output[1]) = WordsOfLines(input)

\* The replacement of all non-overlapping matches of p in s by r, from left
\* to right.
RECURSIVE ReplaceAll(_, _, _)
ReplaceAll(s, p, r) ==
    IF \A i \in 1..(Len(s) - Len(p) + 1) : SubSeq(s, i, i + Len(p) - 1) # p
    THEN s
    ELSE LET i == CHOOSE k \in 1..(Len(s) - Len(p) + 1) :
                      /\ SubSeq(s, k, k + Len(p) - 1) = p
                      /\ \A j \in 1..(k - 1) : SubSeq(s, j, j + Len(p) - 1) # p
         IN  SubSeq(s, 1, i - 1) \o r \o ReplaceAll(SubSeq(s, i + Len(p), Len(s)), p, r)

\* Rule i and the rules after it, each applied to the result of the one
\* before it and replacing all matches; a pattern without a replacement
\* deletes its matches.
RECURSIVE SubstituteAll(_, _, _, _)
SubstituteAll(s, regexes, replacements, i) ==
    IF i > Len(regexes) THEN s
    ELSE SubstituteAll(
             ReplaceAll(s, regexes[i],
                        IF i <= Len(replacements) THEN replacements[i] ELSE <<>>),
             regexes, replacements, i + 1)

\* C10 (substitution semantics): the line the wrap engine gets is the input
\* line after every rule, in declaration order, was applied to the result of
\* the rule before it, each rule replacing all non-overlapping matches of
\* its pattern.
SubstitutionSemantics ==
    (pc \in {"chars", "read"} /\ input # <<>>)
        => substituted_line =
               SubstituteAll(input_line, args.substitute_regex, args.replacement, 1)

\* The rules as the claim pairs them: one rule per pattern, with the
\* replacement at the pattern's position or the empty replacement when there
\* is none; a replacement without a pattern makes no rule.
PairedRules(regexes, replacements) ==
    [i \in 1..Len(regexes) |->
        [pattern     |-> regexes[i],
         replacement |-> IF i <= Len(replacements) THEN replacements[i] ELSE <<>>]]

\* The rules applied in order, each to the result of the one before it.
RECURSIVE ApplyRules(_, _)
ApplyRules(s, rules) ==
    IF rules = <<>> THEN s
    ELSE ApplyRules(regex_replace(s, Head(rules).pattern, Head(rules).replacement),
                    Tail(rules))

\* C11 (substitution pairing): patterns and replacements are paired by
\* position; a pattern without a replacement at its position is applied with
\* the empty replacement, and a replacement without a pattern at its position
\* changes no line.
SubstitutionPairing ==
    (pc \in {"chars", "read"} /\ input # <<>>)
        => /\ substituted_line =
                  ApplyRules(input_line,
                             PairedRules(args.substitute_regex, args.replacement))
           /\ args.substitute_regex = <<>> => substituted_line = input_line

\* C11 witness: two patterns and one replacement; the first match was
\* replaced and the match of the second pattern was deleted.
SubstitutionPairingWitness ==
    /\ pc = "read"
    /\ args.substitute_regex = <<(<<"a">>), (<<"b">>)>>
    /\ args.replacement = <<(<<"*">>)>>
    /\ input_line = <<"a", "b">>
    /\ substituted_line = <<"*">>

\* A pattern of the configuration does not compile.
HasInvalidPattern ==
    \E i \in 1..Len(args.substitute_regex) : args.substitute_regex[i] = <<"(">>

\* C12 (configuration error is fatal before any side effect): when a
\* pattern does not compile, at whatever position, no line is ever read and
\* no line is ever written, also not by the final flush of rewrap, and the
\* run ends with exit code 1.
ConfigurationErrorIsFatal ==
    HasInvalidPattern
        => /\ pc \in {"start", "done"}
           /\ input = <<>>
           /\ output = <<>>
           /\ flushed = <<>>
           /\ pc = "done" => exit_code = 1

\* C12 witness: a finished rewrap run whose second pattern does not compile
\* while its first one does.
ConfigurationErrorIsFatalWitness ==
    /\ pc = "done"
    /\ args.rewrap
    /\ Len(args.substitute_regex) = 2
    /\ args.substitute_regex[1] = <<"a">>
    /\ args.substitute_regex[2] = <<"(">>
    /\ exit_code = 1
    /\ output = <<>>

\* An input file of the run failed: it could not be opened or not be read.
SomeSourceFailed ==
    \E i \in 1..Len(args.input_files) : args.input_files[i] # "readable"

\* C13 (input-source errors are recoverable per source): an input file that
\* cannot be opened or cannot be read does not end the run; the run comes to
\* its end only after every input file was taken up, it then has written the
\* pending buffer as its last line in rewrap mode, and its exit code is 1
\* when some input file failed and 0 otherwise.
InputSourceErrorsRecoverable ==
    /\ pc # "panicked"
    /\ pc = "done"
          => /\ source = Len(args.input_files)
             /\ exit_code = IF SomeSourceFailed THEN 1 ELSE 0
             /\ args.rewrap
                   => /\ output # <<>>
                      /\ output[Len(output)] = write_line(state.output_line, args)

\* C14 (multiple sources form one stream): the lines are read in the order
\* of the input files; between two lines, also at the end of an input file
\* and at the start of the next one, the lines written and the pending buffer
\* are those of a run over the lines read so far as one stream; and the
\* lines written by a finished run are those of a run over stdin holding the
\* lines of the input files one after the other.
SourcesFormOneStream ==
    /\ \A i, j \in 1..Len(origin) : i <= j => origin[i] <= origin[j]
    /\ pc \in {"open", "read"}
          => /\ output = read_lines(input, <<>>, args).out
             /\ state.output_line = read_lines(input, <<>>, args).buf
    /\ pc = "done" => output = read_lines_from_input(input, args)

\* C14 witness: a finished rewrap run over two input files of one line each,
\* written as one line: the paragraph spans the two files.
SourcesFormOneStreamWitness ==
    /\ pc = "done"
    /\ args.rewrap
    /\ origin = <<1, 2>>
    /\ Len(output) = 1
    /\ Len(Words(output[1])) = 2
    /\ Words(output[1]) = WordsOfLines(input)

\* C15 (the formatting state machine cannot fail): no step of the loop over
\* the characters aborts, whatever the configuration and the characters are,
\* whitespace of more than one byte included; when overflow handling splits
\* the buffer at last_word_end, the split position is a character boundary
\* inside the buffer.
FormattingCannotFail ==
    /\ pc # "panicked"
    /\ (/\ pc = "chars" /\ rest # <<>>
        /\ is_overflow(next_char_state, args)
        /\ splits_at_last_word_end(next_char_state, args))
          => CharIndex(state.output_line, state.last_word_end + 1)
                 \in 1..Len(state.output_line)

\* The whitespace s starts with.
LeadingWs(s) == SubSeq(s, 1, Len(s) - Len(TrimStart(s)))

\* The line starts a list item: its first non-whitespace character is a
\* bullet.
StartsListItem(l) == TrimStart(l) # <<>> /\ Head(TrimStart(l)) \in {"*", "-"}

\* The list prefix of a line that starts a list item: what precedes the
\* bullet, one space for the bullet and the whitespace that follows it.
ListPrefixOf(l) ==
    LeadingWs(l) \o <<" ">> \o LeadingWs(Tail(TrimStart(l)))

\* The line being processed is joined into the list item that the first
\* line of its paragraph started.
JoinedIntoListItem ==
    /\ Len(input) >= 2
    /\ ~StartsParagraph(input_line)
    /\ StartsListItem(ParagraphTail(input)[1])

\* C16 (state persistence in rewrap mode): with rewrap and
\* preserve_list_indentation, while a line joined into a list item is
\* processed, the list prefix captured on the line that started the item is
\* still in effect: every wrap puts it at the start of the new output line.
ListPrefixPersists ==
    [][(/\ args.rewrap /\ args.preserve_list_indentation
        /\ pc = "chars" /\ pc' = "chars"
        /\ JoinedIntoListItem
        /\ output' # output)
       => IsPrefix(ListPrefixOf(ParagraphTail(input)[1]), state'.output_line)]_vars

\* The buffer holds a complete word followed by whitespace.
HasWordBoundary(buf) ==
    \E i \in 1..Len(buf) :
        IsWhitespace(buf[i]) /\ \E j \in 1..(i - 1) : ~IsWhitespace(buf[j])

\* The position of the last whitespace character of buf (0: none).
LastWs(buf) ==
    IF \E i \in 1..Len(buf) : IsWhitespace(buf[i])
    THEN CHOOSE i \in 1..Len(buf) :
             IsWhitespace(buf[i]) /\ \A j \in (i + 1)..Len(buf) : ~IsWhitespace(buf[j])
    ELSE 0

\* C17 (split at the last word boundary): with break_words = false and
\* max_line_length = N > 0, when overflow is detected on a non-whitespace
\* character and the buffer holds a complete word followed by whitespace
\* (wherever that whitespace came from: this line, an earlier line or the
\* join space of rewrap), the buffer through its last whitespace is written
\* as a line and only the partial word after it is kept, so the buffer grows
\* beyond N only when it holds no such boundary.
SplitAtLastWordBoundary ==
    [][(/\ ~args.break_words /\ args.max_line_length > 0
        /\ pc = "chars" /\ pc' = "chars"
        /\ rest # <<>> /\ ~IsWhitespace(Head(rest))
        /\ is_overflow(next_char_state, args)
        /\ HasWordBoundary(state.output_line))
       => LET buf == state.output_line
              k   == LastWs(buf)
          IN  /\ output' = Append(output, write_line(SubSeq(buf, 1, k), args))
              /\ TrimStart(state'.output_line)
                     = Append(SubSeq(buf, k + 1, Len(buf)), Head(rest))]_vars

\* C18 (overflow on whitespace): when overflow is detected at a whitespace
\* character, the whole buffer is written as a line, the character is
\* dropped, the word-boundary marker is cleared and the new buffer is empty
\* or exactly the list prefix.
OverflowOnWhitespace ==
    [][(/\ pc = "chars" /\ rest # <<>>
        /\ IsWhitespace(Head(rest))
        /\ is_overflow(next_char_state, args))
       => /\ pc' = "chars"
          /\ output' = Append(output, write_line(state.output_line, args))
          /\ rest' = Tail(rest)
          /\ ~state'.has_last_word_end
          /\ state'.list_indentation = state.list_indentation
          /\ state'.output_line = IF state.has_list_indentation
                                  THEN state.list_indentation
                                  ELSE <<>>]_vars

\* C18 witness: without break_words, a whitespace character met a full
\* buffer inside a list item: the buffer was written, the character was
\* dropped and the new buffer is the list prefix.
OverflowOnWhitespaceWitness ==
    /\ ~args.break_words
    /\ pc = "chars"
    /\ state.is_at_word_boundary
    /\ ~state.has_last_word_end
    /\ state.has_list_indentation
    /\ state.output_line = state.list_indentation
    /\ Len(output) = out_mark + 1
    /\ NonWs(output[Len(output)]) = NonWs(SubSeq(input_line, 1, Len(input_line) - Len(rest) - 1))
    /\ NonWs(output[Len(output)]) # <<>>

\* The characters of the current line processed so far.
Processed == SubSeq(rest, 1, 0) \o
             SubSeq(input_line, 1, Len(input_line) - Len(rest))

\* C19 (list-prefix capture): the list prefix is set only with
\* preserve_list_indentation and only at a bullet that is the first
\* non-whitespace character seen; at capture it is the buffer content of
\* that moment plus one space; each whitespace character that directly
\* follows the bullet extends it; the first non-whitespace character after
\* the bullet closes the capture; from then on it is not modified while the
\* item is processed.
ListPrefixCapture ==
    [][(pc = "chars" /\ pc' = "chars")
       => LET c == Head(rest)
          IN  /\ ~args.preserve_list_indentation => ~state'.has_list_indentation
              /\ (~state.has_list_indentation /\ state'.has_list_indentation)
                    => /\ is_list_start(c)
                       /\ NonWs(Processed) = <<>>
                       /\ state'.output_line # <<>>
                       /\ state'.list_indentation =
                              Append(SubSeq(state'.output_line, 1,
                                            Len(state'.output_line) - 1), " ")
                       /\ ~state'.list_padding_end
              /\ (state.has_list_indentation /\ ~state.list_padding_end)
                    => IF IsWhitespace(c)
                       THEN /\ state'.list_indentation =
                                   Append(state.list_indentation, c)
                            /\ ~state'.list_padding_end
                       ELSE /\ state'.list_indentation = state.list_indentation
                            /\ state'.list_padding_end
              /\ (state.has_list_indentation /\ state.list_padding_end)
                    => /\ state'.list_indentation = state.list_indentation
                       /\ state'.has_list_indentation
                       /\ state'.list_padding_end]_vars

\* C20 (substitution precedes wrapping): the rules are applied to a line
\* before the wrap engine acts on it, so in rewrap mode the decision between
\* writing the pending buffer (the line starts a paragraph) and joining the
\* line to it is taken on the substituted line, never on the raw line.
SubstitutionPrecedesWrapping ==
    [][(/\ args.rewrap
        /\ pc = "read" /\ pc' = "chars"
        /\ state.output_line # <<>>)
       => IF StartsParagraph(substituted_line')
          THEN /\ output' = Append(output, write_line(state.output_line, args))
               /\ state'.output_line = <<>>
          ELSE /\ output' = output
               /\ state'.output_line = Append(state.output_line, " ")]_vars

\* C21 (content preservation): without substitutions, the non-whitespace
\* characters of the lines written, of the pending buffer and of the
\* characters not yet processed are, in this order, the non-whitespace
\* characters of the lines read: none is lost, duplicated or moved; the
\* captured list indentation is whitespace only; and the lines written by a
\* finished run hold exactly the non-whitespace characters of the input.
ContentPreservation ==
    args.substitute_regex = <<>>
        => /\ NonWs(state.list_indentation) = <<>>
           /\ pc # "done"
                 => NonWs(Flatten(output)) \o NonWs(state.output_line)
                        \o (IF pc \in {"chars", "panicked"} THEN NonWs(rest) ELSE <<>>)
                    = NonWs(Flatten(input))
           /\ pc = "done" => NonWs(Flatten(output)) = NonWs(Flatten(input))

\* C21 witness: a finished run with a width limit and preserved list
\* indentation over a bullet line that was wrapped, the continuation line
\* starting with the inserted indentation.
ContentPreservationWitness ==
    /\ pc = "done"
    /\ args.max_line_length > 0
    /\ args.preserve_list_indentation
    /\ Len(input) = 1
    /\ Len(NonWs(input[1])) >= 3
    /\ Head(input[1]) = "*"
    /\ Len(output) >= 2
    /\ output[2] # <<>> /\ IsWhitespace(Head(output[2]))
    /\ NonWs(Flatten(output)) = NonWs(input[1])

\* Line i of the input is empty and stands between two lines with text.
SeparatesParagraphs(i) ==
    /\ input[i] = <<>>
    /\ NonWs(input[i - 1]) # <<>>
    /\ NonWs(input[i + 1]) # <<>>

\* C22 (blank lines survive rewrapping): with rewrap, the lines written by a
\* finished run hold an empty line for every empty input line between two
\* paragraphs, after the text of the lines before it and before the text of
\* the lines after it; and a buffer left by a whitespace-only line is not
\* joined with the line that follows it.
BlankLinesSurviveRewrap ==
    /\ [](args.rewrap /\ pc = "done"
            => \A i \in 2..(Len(input) - 1) :
                  SeparatesParagraphs(i)
                     => \E k \in 2..(Len(output) - 1) :
                           /\ output[k] = <<>>
                           /\ NonWs(Flatten(SubSeq(output, 1, k - 1)))
                                  = NonWs(Flatten(SubSeq(input, 1, i - 1))))
    /\ [][(/\ args.rewrap
           /\ pc = "read" /\ pc' = "chars"
           /\ input # <<>>
           /\ input_line # <<>> /\ NonWs(input_line) = <<>>
           /\ state.output_line # <<>> /\ NonWs(state.output_line) = <<>>
           /\ NonWs(input_line') # <<>>)
          => state'.output_line = <<>>]_vars

\* C23 (formatting is idempotent): without substitutions, the lines written
\* by a finished run, read again as the input of a run with the same
\* configuration, are written unchanged.
FormattingIsIdempotent ==
    (pc = "done" /\ args.substitute_regex = <<>>)
        => read_lines_from_input(output, args) = output

====
